---- MODULE Spec2Model ----
(***************************************************************************)
(* Controller of the ArcGIS Icon Browser plugin: the message handler       *)
(* figma.ui.onmessage of code.js (src/unnamed/part_000), run by the host's *)
(* event loop.  A handler invocation runs synchronously up to its first    *)
(* await; the host resumes it when the awaited import settles.  The host   *)
(* (canvas, viewport, selection, notifications, client storage, component  *)
(* library) is the state the handler reads and writes.                     *)
(***************************************************************************)
EXTENDS Integers, Sequences, FiniteSets, TLC

(***************************************************************************)
(* Bounds of the model.                                                    *)
(***************************************************************************)
MaxMsgs == 2          \* messages the UI panel sends in one session (Spec)
MaxBatch == 5         \* longest batch of layout records (SpecSeq)
MaxShapeBatch == 1    \* longest batch over every record shape (SpecSeq)

(***************************************************************************)
(* Program constants.                                                      *)
(***************************************************************************)
spacing == 20
maxRowWidth == 400

(***************************************************************************)
(* JavaScript values.  A property that is absent reads as undefined; the   *)
(* handler initialises componentKey to null.  Both are kept apart from the *)
(* empty string, and all three are falsy.                                  *)
(***************************************************************************)
Undefined == "<undefined>"
Null == "<null>"

\* truthiness of a string-or-absent value, as `if (v)` and `v || d` test it
TruthyStr(v) == v \notin {Undefined, Null, ""}

\* a message payload: a tagged JavaScript value
JsUndefined == [type |-> "undefined", num |-> 0, str |-> "", items |-> <<>>]
JsNull == [type |-> "null", num |-> 0, str |-> "", items |-> <<>>]
JsBool(b) == [type |-> "boolean", num |-> IF b THEN 1 ELSE 0, str |-> "", items |-> <<>>]
JsNum(n) == [type |-> "number", num |-> n, str |-> "", items |-> <<>>]
JsStr(s) == [type |-> "string", num |-> 0, str |-> s, items |-> <<>>]
JsArray(xs) == [type |-> "array", num |-> 0, str |-> "", items |-> xs]

\* ToBoolean of a JavaScript value: every object, an empty array included, is truthy
Truthy(v) ==
    CASE v.type = "undefined" -> FALSE
      [] v.type = "null" -> FALSE
      [] v.type = "boolean" -> v.num # 0
      [] v.type = "number" -> v.num # 0
      [] v.type = "string" -> v.str # ""
      [] OTHER -> TRUE

(***************************************************************************)
(* Icon records.  has_vk says whether the record carries a variant_keys    *)
(* object; vkA and vkB are its entries A and B; component_key is the       *)
(* legacy key.  Each may be absent (Undefined), empty or a library key.    *)
(***************************************************************************)
KeyA == "k150"
KeyB == "k230"
KeyC == "k450"
Keys == {KeyA, KeyB, KeyC}

Icon(hv, a, b, c, nm) ==
    [present |-> TRUE, has_vk |-> hv, vkA |-> a, vkB |-> b,
     component_key |-> c, icon_name |-> nm]

\* msg.iconData of a message that carries none
NoIcon ==
    [present |-> FALSE, has_vk |-> FALSE, vkA |-> Undefined, vkB |-> Undefined,
     component_key |-> Undefined, icon_name |-> Undefined]

\* every shape of record the resolution can tell apart
IconRecords ==
    {Icon(FALSE, Undefined, Undefined, c, "pin") : c \in {Undefined, "", KeyC}}
    \cup {Icon(TRUE, a, b, c, "pin") :
            a \in {Undefined, "", KeyA}, b \in {Undefined, "", KeyB},
            c \in {Undefined, "", KeyC}}

\* the records the layout runs are made of
OnlyA == Icon(TRUE, KeyA, Undefined, Undefined, "pin")
OnlyB == Icon(TRUE, Undefined, KeyB, Undefined, "map")
OnlyC == Icon(FALSE, Undefined, Undefined, KeyC, "globe")
NoKey == Icon(TRUE, Undefined, Undefined, "", "blank")
LayoutRecords == {OnlyA, OnlyB, OnlyC, NoKey}

Modes == {Undefined, "A", "B", "C"}

\* the component the library publishes under a key: its instances' size
ComponentWidth(key) == IF key = KeyA THEN 150 ELSE IF key = KeyB THEN 230 ELSE 450
ComponentHeight(key) == IF key = KeyB THEN 80 ELSE 50

\* the viewport centers the user can scroll to
Centers == {<<1000, 1000>>, <<0, 0>>}

SeqsUpTo(S, n) == UNION {[1..k -> S] : k \in 0..n}

(***************************************************************************)
(* Identifier resolution.  The handler of insert-icon and the loop of      *)
(* insert-multiple each carry their own copy of the if-chain.              *)
(***************************************************************************)
\* msg.mode || 'A'
DefaultMode(m) == IF TruthyStr(m) THEN m ELSE "A"

\* iconData.variant_keys[mode]
VariantKey(iconData, mode) ==
    IF mode = "A" THEN iconData.vkA
    ELSE IF mode = "B" THEN iconData.vkB
    ELSE Undefined

\* insert-icon: componentKey after the if-chain (null when no branch is taken)
ResolveSingle(iconData, mode) ==
    IF iconData.has_vk /\ TruthyStr(VariantKey(iconData, mode))
    THEN VariantKey(iconData, mode)
    ELSE IF iconData.has_vk /\ TruthyStr(iconData.vkA)
    THEN iconData.vkA
    ELSE IF TruthyStr(iconData.component_key)
    THEN iconData.component_key
    ELSE Null

\* a loop that tries the legacy component_key before the light variant
ResolveBatch_ComponentKeyFirst(iconData, mode) ==
    IF iconData.has_vk /\ TruthyStr(VariantKey(iconData, mode))
    THEN VariantKey(iconData, mode)
    ELSE IF TruthyStr(iconData.component_key)
    THEN iconData.component_key
    ELSE IF iconData.has_vk /\ TruthyStr(iconData.vkA)
    THEN iconData.vkA
    ELSE Null

\* insert-multiple: componentKey of one record of the batch
ResolveBatch(iconData, mode) ==
    IF iconData.has_vk /\ TruthyStr(VariantKey(iconData, mode))
    THEN VariantKey(iconData, mode)
    ELSE IF iconData.has_vk /\ TruthyStr(iconData.vkA)
    THEN iconData.vkA
    ELSE IF TruthyStr(iconData.component_key)
    THEN iconData.component_key
    ELSE Null

\* a loop without the `continue`: every record is imported
NextResolvable_NoSkip(icons, mode, i) == i

\* `if (!componentKey) continue;`: the first record at or after i the loop imports
RECURSIVE NextResolvable(_, _, _)
NextResolvable(icons, mode, i) ==
    IF i > Len(icons) THEN i
    ELSE IF TruthyStr(ResolveBatch(icons[i], mode)) THEN i
    ELSE NextResolvable(icons, mode, i + 1)

(***************************************************************************)
(* Messages of the UI panel.                                               *)
(***************************************************************************)
Msg(t, icon, hasIcons, icons, mode, payload) ==
    [type |-> t, iconData |-> icon, has_icons |-> hasIcons, icons |-> icons,
     mode |-> mode, payload |-> payload]

InsertIcon(icon, mode) == Msg("insert-icon", icon, FALSE, <<>>, mode, JsUndefined)
InsertMultiple(icons, mode) == Msg("insert-multiple", NoIcon, TRUE, icons, mode, JsUndefined)
InsertMultipleNoIcons(mode) == Msg("insert-multiple", NoIcon, FALSE, <<>>, mode, JsUndefined)
CacheData(payload) == Msg("cache-data", NoIcon, FALSE, <<>>, Undefined, payload)
GetCachedData == Msg("get-cached-data", NoIcon, FALSE, <<>>, Undefined, JsUndefined)
Close == Msg("close", NoIcon, FALSE, <<>>, Undefined, JsUndefined)
Unknown == Msg("resize", NoIcon, FALSE, <<>>, Undefined, JsUndefined)

\* what the UI panel caches: catalogs (arrays of records), and any other value
Payloads ==
    {JsArray(<<>>), JsArray(<<OnlyA>>), JsNull, JsStr(""), JsNum(0), JsBool(FALSE)}

\* the messages of a session in which handlers may overlap
Messages ==
    {InsertIcon(OnlyA, Undefined), InsertIcon(OnlyB, "B"), InsertIcon(NoKey, "B"),
     InsertIcon(NoIcon, Undefined),
     InsertMultiple(<<>>, Undefined), InsertMultipleNoIcons("B"),
     InsertMultiple(<<OnlyA, OnlyC>>, "A"), InsertMultiple(<<NoKey, OnlyB>>, "B"),
     InsertMultiple(<<OnlyB, NoKey>>, Undefined),
     GetCachedData, Close, Unknown}
    \cup {CacheData(p) : p \in Payloads}

\* the messages of a session of one message: every record shape, long batches
SeqMessages ==
    {InsertIcon(r, m) : r \in IconRecords \cup {NoIcon}, m \in Modes}
    \cup {InsertMultiple(b, m) : b \in SeqsUpTo(IconRecords, MaxShapeBatch), m \in Modes}
    \cup {InsertMultiple(b, m) : b \in SeqsUpTo(LayoutRecords, MaxBatch), m \in {"A", "B"}}
    \cup {InsertMultipleNoIcons(Undefined), GetCachedData, Close, Unknown,
          CacheData(JsArray(<<>>))}

(***************************************************************************)
(* State.                                                                  *)
(***************************************************************************)
VARIABLES
    handlers,       \* the invocations of onmessage, in arrival order, with their locals
    canvas,         \* the nodes of the current page; a node's id is its index
    selection,      \* figma.currentPage.selection: node ids
    viewport,       \* figma.viewport.center
    notifications,  \* the calls of figma.notify, in order
    imports,        \* the calls of figma.importComponentByKeyAsync, in order
    storage,        \* client storage under 'icon-data'
    reads,          \* getAsync promises not yet settled
    outbox,         \* messages posted to the UI panel
    rejections,     \* promises rejected with no handler
    settled,        \* the imports the host has settled, in order, and how
    closed          \* figma.closePlugin() was called

vars ==
    <<handlers, canvas, selection, viewport, notifications, imports, storage,
      reads, outbox, rejections, settled, closed>>

Init ==
    /\ handlers = <<>>
    /\ canvas = <<>>
    /\ selection = <<>>
    /\ viewport \in Centers
    /\ notifications = <<>>
    /\ imports = <<>>
    /\ storage = JsUndefined
    /\ reads = <<>>
    /\ outbox = <<>>
    /\ rejections = 0
    /\ settled = <<>>
    /\ closed = FALSE

(***************************************************************************)
(* Host operations.                                                        *)
(***************************************************************************)
Max(a, b) == IF a >= b THEN a ELSE b

\* a node of the page
Node(x, y, w, h) == [x |-> x, y |-> y, width |-> w, height |-> h]

\* a notify that never passes the error option
Notification_NoFlag(h, kind, err, count, name) ==
    [h |-> h, kind |-> kind, error |-> FALSE, count |-> count, icon_name |-> name]

\* figma.notify(text, {error}): who called, which text, the count and icon it names
Notification(h, kind, err, count, name) ==
    [h |-> h, kind |-> kind, error |-> err, count |-> count, icon_name |-> name]

\* figma.viewport.scrollAndZoomIntoView(nodes): the view is centred on the
\* bounding box of the nodes; an empty list leaves it alone.  (Sizes and
\* centers of the model are even, so the halves are exact.)
ScrollAndZoomIntoView(nodes, cv, vp) ==
    IF nodes = <<>> THEN vp
    ELSE LET ids == {nodes[k] : k \in 1..Len(nodes)}
             minX == CHOOSE v \in {cv[n].x : n \in ids} : \A n \in ids : v <= cv[n].x
             minY == CHOOSE v \in {cv[n].y : n \in ids} : \A n \in ids : v <= cv[n].y
             maxX == CHOOSE v \in {cv[n].x + cv[n].width : n \in ids} :
                        \A n \in ids : v >= cv[n].x + cv[n].width
             maxY == CHOOSE v \in {cv[n].y + cv[n].height : n \in ids} :
                        \A n \in ids : v >= cv[n].y + cv[n].height
         IN  <<(minX + maxX) \div 2, (minY + maxY) \div 2>>

\* a reply that also turns an empty catalog into null (`cached && cached.length`)
CachedOrNull_EmptyIsNone(cached) ==
    IF Truthy(cached) /\ ~(cached.type = "array" /\ cached.items = <<>>)
    THEN cached ELSE JsNull

\* `cached || null` of the get-cached-data reply
CachedOrNull(cached) == IF Truthy(cached) THEN cached ELSE JsNull

(***************************************************************************)
(* Handler invocations.  pc is "await-import" while the invocation is      *)
(* suspended on importComponentByKeyAsync, "done" once it has returned and *)
(* "threw" once it has ended with an exception nothing catches.            *)
(***************************************************************************)
Handler(msg, pc, mode, key, idx, insts, vc, cx, cy, mh) ==
    [msg |-> msg, pc |-> pc, mode |-> mode, componentKey |-> key, idx |-> idx,
     instances |-> insts, viewportCenter |-> vc, currentX |-> cx, currentY |-> cy,
     maxHeightInRow |-> mh, rowStartX |-> vc[1]]

\* an invocation that ends before it has any locals worth keeping
Ended(msg, pc) == Handler(msg, pc, DefaultMode(msg.mode), Null, 0, <<>>, <<0, 0>>, 0, 0, 0)

Put(hs, h, rec) == IF h = Len(hs) + 1 THEN Append(hs, rec) ELSE [hs EXCEPT ![h] = rec]

\* a wrap test that also wraps an object that exactly fills the row
WrapNeeded_AtLeast(hr, width) ==
    hr.currentX - hr.rowStartX + width >= maxRowWidth /\ Len(hr.instances) > 0

\* a wrap test without the guard on the placed list
WrapNeeded_NoGuard(hr, width) ==
    hr.currentX - hr.rowStartX + width > maxRowWidth

\* a wrap test that looks at the cursor alone, not at the object's width
WrapNeeded_IgnoresWidth(hr, width) ==
    hr.currentX - hr.rowStartX > maxRowWidth /\ Len(hr.instances) > 0

\* the wrap test of the batch loop
WrapNeeded(hr, width) ==
    hr.currentX - hr.rowStartX + width > maxRowWidth /\ Len(hr.instances) > 0

\* a wrap that moves down by the spacing alone
CursorY_NoRowHeight(hr, width) ==
    IF hr.currentX - hr.rowStartX + width > maxRowWidth /\ Len(hr.instances) > 0
    THEN hr.currentY + spacing ELSE hr.currentY

\* the cursor after the wrap test
CursorX(hr, width) == IF WrapNeeded(hr, width) THEN hr.rowStartX ELSE hr.currentX
CursorY(hr, width) ==
    IF WrapNeeded(hr, width) THEN hr.currentY + hr.maxHeightInRow + spacing ELSE hr.currentY
RowHeight(hr, width) == IF WrapNeeded(hr, width) THEN 0 ELSE hr.maxHeightInRow

\* a loop that puts each new instance at the front of the list (unshift for push)
Placed_Unshift(hr, width, height, id) ==
    [hr EXCEPT !.currentX = CursorX(hr, width) + width + spacing,
               !.currentY = CursorY(hr, width),
               !.maxHeightInRow = Max(RowHeight(hr, width), height),
               !.instances = <<id>> \o @]

\* the locals after one object of the batch has been placed as node id
Placed(hr, width, height, id) ==
    [hr EXCEPT !.currentX = CursorX(hr, width) + width + spacing,
               !.currentY = CursorY(hr, width),
               !.maxHeightInRow = Max(RowHeight(hr, width), height),
               !.instances = Append(@, id)]

\* the count the batch's closing notification reports
ReportedCount(hr) == Len(hr.msg.icons)

\* the batch loop from record i on, with locals hr and page cv: it suspends on
\* the import of the next record that resolves, or runs off the end of icons,
\* selects and frames the instances and notifies.
BatchLoop(h, hr, cv, i) ==
    LET icons == hr.msg.icons
        j == NextResolvable(icons, hr.mode, i)
    IN  /\ canvas' = cv
        /\ IF j <= Len(icons)
           THEN /\ handlers' = Put(handlers, h,
                       [hr EXCEPT !.pc = "await-import", !.idx = j,
                                  !.componentKey = ResolveBatch(icons[j], hr.mode)])
                /\ imports' = Append(imports,
                       [h |-> h, key |-> ResolveBatch(icons[j], hr.mode)])
                /\ UNCHANGED <<selection, viewport, notifications>>
           ELSE /\ handlers' = Put(handlers, h, [hr EXCEPT !.pc = "done", !.idx = j])
                /\ selection' = hr.instances
                /\ viewport' = ScrollAndZoomIntoView(hr.instances, cv, viewport)
                /\ notifications' = Append(notifications,
                       Notification(h, "inserted-n", FALSE, ReportedCount(hr), Undefined))
                /\ UNCHANGED imports

(***************************************************************************)
(* onmessage, from the call to the first await or to the return.           *)
(***************************************************************************)
OnInsertIcon(h, msg) ==
    LET iconData == msg.iconData
        mode == DefaultMode(msg.mode)
        componentKey == ResolveSingle(iconData, mode)
    IN  /\ msg.type = "insert-icon"
        /\ \/ /\ ~iconData.present        \* iconData.variant_keys of undefined
              /\ handlers' = Append(handlers, Ended(msg, "threw"))
              /\ rejections' = rejections + 1
              /\ UNCHANGED <<notifications, imports>>
           \/ /\ iconData.present
              /\ ~TruthyStr(componentKey)
              /\ handlers' = Append(handlers, Ended(msg, "done"))
              /\ notifications' = Append(notifications,
                     Notification(h, "no-key", TRUE, 0, Undefined))
              /\ UNCHANGED <<imports, rejections>>
           \/ /\ iconData.present
              /\ TruthyStr(componentKey)
              /\ handlers' = Append(handlers,
                     Handler(msg, "await-import", mode, componentKey, 0, <<>>,
                             <<0, 0>>, 0, 0, 0))
              /\ imports' = Append(imports, [h |-> h, key |-> componentKey])
              /\ UNCHANGED <<notifications, rejections>>
        /\ UNCHANGED <<canvas, selection, viewport, storage, reads, outbox, closed>>

OnInsertMultiple(h, msg) ==
    LET icons == msg.icons
        mode == DefaultMode(msg.mode)
    IN  /\ msg.type = "insert-multiple"
        /\ \/ /\ ~msg.has_icons \/ Len(icons) = 0
              /\ handlers' = Append(handlers, Ended(msg, "done"))
              /\ notifications' = Append(notifications,
                     Notification(h, "no-icons", TRUE, 0, Undefined))
              /\ UNCHANGED <<canvas, selection, viewport, imports>>
           \/ /\ msg.has_icons /\ Len(icons) > 0
              /\ BatchLoop(h, Handler(msg, "run", mode, Null, 0, <<>>, viewport,
                                      viewport[1], viewport[2], 0), canvas, 1)
        /\ UNCHANGED <<storage, reads, outbox, rejections, closed>>

OnGetCachedData(h, msg) ==
    /\ msg.type = "get-cached-data"
    /\ handlers' = Append(handlers, Ended(msg, "done"))
    /\ reads' = Append(reads, [h |-> h, cached |-> storage])
    /\ UNCHANGED <<canvas, selection, viewport, notifications, imports, storage,
                   outbox, rejections, closed>>

OnCacheData(h, msg) ==
    /\ msg.type = "cache-data"
    /\ handlers' = Append(handlers, Ended(msg, "done"))
    /\ storage' = msg.payload
    /\ UNCHANGED <<canvas, selection, viewport, notifications, imports, reads,
                   outbox, rejections, closed>>

OnClose(h, msg) ==
    /\ msg.type = "close"
    /\ handlers' = Append(handlers, Ended(msg, "done"))
    /\ closed' = TRUE
    /\ UNCHANGED <<canvas, selection, viewport, notifications, imports, storage,
                   reads, outbox, rejections>>

OnOther(h, msg) ==
    /\ msg.type \notin {"insert-icon", "insert-multiple", "get-cached-data",
                        "cache-data", "close"}
    /\ handlers' = Append(handlers, Ended(msg, "done"))
    /\ UNCHANGED <<canvas, selection, viewport, notifications, imports, storage,
                   reads, outbox, rejections, closed>>

\* the host calls onmessage with msg
Deliver(msg) ==
    LET h == Len(handlers) + 1
    IN  /\ ~closed
        /\ \/ OnInsertIcon(h, msg)
           \/ OnInsertMultiple(h, msg)
           \/ OnGetCachedData(h, msg)
           \/ OnCacheData(h, msg)
           \/ OnClose(h, msg)
           \/ OnOther(h, msg)
        /\ UNCHANGED settled

\* the UI panel posts a message while earlier invocations may be suspended
Receive ==
    /\ Len(handlers) < MaxMsgs
    /\ \E msg \in Messages : Deliver(msg)

\* the UI panel posts the one message of a session
ReceiveOne ==
    /\ handlers = <<>>
    /\ \E msg \in SeqMessages : Deliver(msg)

(***************************************************************************)
(* The awaited import settles and the invocation resumes.                  *)
(***************************************************************************)
\* an insert-icon that puts the instance's corner, not its centre, on the center
SingleResumes_AtCorner(h) ==
    LET hr == handlers[h]
        width == ComponentWidth(hr.componentKey)
        height == ComponentHeight(hr.componentKey)
        id == Len(canvas) + 1
        cv == Append(canvas, Node(viewport[1], viewport[2], width, height))
    IN  /\ hr.msg.type = "insert-icon"
        /\ canvas' = cv
        /\ selection' = <<id>>
        /\ viewport' = ScrollAndZoomIntoView(<<id>>, cv, viewport)
        /\ notifications' = Append(notifications,
               Notification(h, "inserted", FALSE, 0, hr.msg.iconData.icon_name))
        /\ handlers' = [handlers EXCEPT ![h] =
               [hr EXCEPT !.pc = "done", !.instances = <<id>>, !.viewportCenter = viewport]]
        /\ UNCHANGED imports

\* insert-icon after the await: one instance, centred on the viewport center
SingleResumes(h) ==
    LET hr == handlers[h]
        width == ComponentWidth(hr.componentKey)
        height == ComponentHeight(hr.componentKey)
        id == Len(canvas) + 1
        cv == Append(canvas,
                  Node(viewport[1] - width \div 2, viewport[2] - height \div 2,
                       width, height))
    IN  /\ hr.msg.type = "insert-icon"
        /\ canvas' = cv
        /\ selection' = <<id>>
        /\ viewport' = ScrollAndZoomIntoView(<<id>>, cv, viewport)
        /\ notifications' = Append(notifications,
               Notification(h, "inserted", FALSE, 0, hr.msg.iconData.icon_name))
        /\ handlers' = [handlers EXCEPT ![h] =
               [hr EXCEPT !.pc = "done", !.instances = <<id>>, !.viewportCenter = viewport]]
        /\ UNCHANGED imports

\* a loop that reads figma.viewport.center again for the start of each row
BatchResumes_LiveViewport(h) ==
    LET hr == [handlers[h] EXCEPT !.rowStartX = viewport[1]]
        width == ComponentWidth(hr.componentKey)
        height == ComponentHeight(hr.componentKey)
        id == Len(canvas) + 1
        cv == Append(canvas,
                  Node(CursorX(hr, width), CursorY(hr, width), width, height))
    IN  /\ hr.msg.type = "insert-multiple"
        /\ BatchLoop(h, Placed(hr, width, height, id), cv, hr.idx + 1)

\* insert-multiple after the await: place the instance, go on with the loop
BatchResumes(h) ==
    LET hr == handlers[h]
        width == ComponentWidth(hr.componentKey)
        height == ComponentHeight(hr.componentKey)
        id == Len(canvas) + 1
        cv == Append(canvas,
                  Node(CursorX(hr, width), CursorY(hr, width), width, height))
    IN  /\ hr.msg.type = "insert-multiple"
        /\ BatchLoop(h, Placed(hr, width, height, id), cv, hr.idx + 1)

ImportSucceeds ==
    /\ ~closed
    /\ \E h \in 1..Len(handlers) :
          /\ handlers[h].pc = "await-import"
          /\ SingleResumes(h) \/ BatchResumes(h)
          /\ settled' = Append(settled,
                 [h |-> h, key |-> handlers[h].componentKey, ok |-> TRUE])
    /\ UNCHANGED <<storage, reads, outbox, rejections, closed>>

\* a catch that raises the batch's text for a single insert too
CaughtNotification_Generic(h, hr) ==
    Notification(h, "batch-error", TRUE, 0, Undefined)

\* the notification of the catch block the rejected import lands in
CaughtNotification(h, hr) ==
    IF hr.msg.type = "insert-icon"
    THEN Notification(h, "import-error", TRUE, 0, hr.msg.iconData.icon_name)
    ELSE Notification(h, "batch-error", TRUE, 0, Undefined)

\* the import rejects: the catch of the try around it notifies
ImportFails ==
    /\ ~closed
    /\ \E h \in 1..Len(handlers) :
          LET hr == handlers[h]
          IN  /\ hr.pc = "await-import"
              /\ handlers' = [handlers EXCEPT ![h] = [hr EXCEPT !.pc = "done"]]
              /\ notifications' = Append(notifications, CaughtNotification(h, hr))
              /\ settled' = Append(settled,
                     [h |-> h, key |-> hr.componentKey, ok |-> FALSE])
    /\ UNCHANGED <<canvas, selection, viewport, imports, storage, reads, outbox,
                   rejections, closed>>

(***************************************************************************)
(* Client storage settles a read.                                          *)
(***************************************************************************)
StorageReadDone ==
    /\ ~closed
    /\ reads # <<>>
    /\ outbox' = Append(outbox,
           [h |-> Head(reads).h, type |-> "cached-data",
            payload |-> CachedOrNull(Head(reads).cached)])
    /\ reads' = Tail(reads)
    /\ UNCHANGED <<handlers, canvas, selection, viewport, notifications, imports,
                   storage, rejections, settled, closed>>

\* getAsync rejects: the promise chain has no catch
StorageReadFails ==
    /\ ~closed
    /\ reads # <<>>
    /\ reads' = Tail(reads)
    /\ rejections' = rejections + 1
    /\ UNCHANGED <<handlers, canvas, selection, viewport, notifications, imports,
                   storage, outbox, settled, closed>>

\* the user scrolls the view
PanViewport ==
    /\ ~closed
    /\ \E c \in Centers : c # viewport /\ viewport' = c
    /\ UNCHANGED <<handlers, canvas, selection, notifications, imports, storage,
                   reads, outbox, rejections, settled, closed>>

Next ==
    \/ Receive
    \/ ImportSucceeds
    \/ ImportFails
    \/ StorageReadDone
    \/ StorageReadFails
    \/ PanViewport

Spec == Init /\ [][Next]_vars

NextSeq ==
    \/ ReceiveOne
    \/ ImportSucceeds
    \/ ImportFails
    \/ StorageReadDone
    \/ StorageReadFails
    \/ PanViewport

SpecSeq == Init /\ [][NextSeq]_vars

(***************************************************************************)
(* What the properties read off a state.                                   *)
(***************************************************************************)
\* the keys handler h passed to importComponentByKeyAsync, in call order
KeysOf(h) ==
    LET mine == SelectSeq(imports, LAMBDA e : e.h = h)
    IN  [k \in 1..Len(mine) |-> mine[k].key]

\* the notifications handler h raised, in order
NotesOf(h) == SelectSeq(notifications, LAMBDA e : e.h = h)

IsPrefix(s, t) == Len(s) <= Len(t) /\ \A k \in 1..Len(s) : s[k] = t[k]

IsBatch(h) ==
    /\ handlers[h].msg.type = "insert-multiple"
    /\ handlers[h].msg.has_icons
    /\ Len(handlers[h].msg.icons) > 0

IsSingle(h) == handlers[h].msg.type = "insert-icon" /\ handlers[h].msg.iconData.present

\* handler h is a batch that ran off the end of its loop
BatchCompleted(h) ==
    /\ IsBatch(h)
    /\ handlers[h].pc = "done"
    /\ \E k \in 1..Len(notifications) :
          notifications[k].h = h /\ notifications[k].kind = "inserted-n"

\* the precedence rule of the specification, for a requested mode that may be absent
Unresolved == "<unresolved>"
Usable(v) == v # Undefined /\ v # ""
VariantOf(rec, tag) ==
    IF ~rec.has_vk THEN Undefined
    ELSE CASE tag = "A" -> rec.vkA [] tag = "B" -> rec.vkB [] OTHER -> Undefined
Precedence(rec, requested) ==
    LET tag == IF requested = Undefined THEN "A" ELSE requested
    IN  CASE Usable(VariantOf(rec, tag)) -> VariantOf(rec, tag)
          [] ~Usable(VariantOf(rec, tag)) /\ Usable(VariantOf(rec, "A")) -> VariantOf(rec, "A")
          [] ~Usable(VariantOf(rec, tag)) /\ ~Usable(VariantOf(rec, "A"))
               /\ Usable(rec.component_key) -> rec.component_key
          [] OTHER -> Unresolved

\* the records of a batch that the rule resolves, as indices, and their identifiers
ResolvableIndices(icons, requested) ==
    {k \in 1..Len(icons) : Precedence(icons[k], requested) # Unresolved}
RECURSIVE ExpectedKeys(_, _)
ExpectedKeys(icons, requested) ==
    IF icons = <<>> THEN <<>>
    ELSE IF Precedence(Head(icons), requested) = Unresolved
    THEN ExpectedKeys(Tail(icons), requested)
    ELSE <<Precedence(Head(icons), requested)>> \o ExpectedKeys(Tail(icons), requested)

(***************************************************************************)
(* C1: in both handlers the identifier imported for a record is the one    *)
(* the precedence rule gives for the requested mode (absent mode = "A"):   *)
(* variant_keys[mode], else variant_keys.A, else component_key; a record   *)
(* the rule leaves unresolved is never imported.  A single insert imports  *)
(* exactly the rule's identifier or nothing; a batch imports, in order,    *)
(* the rule's identifiers of its records up to the one it is working on.   *)
(***************************************************************************)
C1_ResolutionPrecedence ==
    \A h \in 1..Len(handlers) :
        LET hr == handlers[h]
            msg == hr.msg
        IN  /\ IsSingle(h) =>
                 KeysOf(h) = IF Precedence(msg.iconData, msg.mode) = Unresolved
                             THEN <<>>
                             ELSE <<Precedence(msg.iconData, msg.mode)>>
            /\ IsBatch(h) =>
                 /\ IsPrefix(KeysOf(h), ExpectedKeys(msg.icons, msg.mode))
                 /\ hr.pc = "await-import" =>
                      /\ hr.idx \in ResolvableIndices(msg.icons, msg.mode)
                      /\ Len(KeysOf(h)) =
                           Cardinality({k \in ResolvableIndices(msg.icons, msg.mode) :
                                          k <= hr.idx})
                 /\ BatchCompleted(h) => KeysOf(h) = ExpectedKeys(msg.icons, msg.mode)

\* a batch asked for mode "B" has imported variant_keys.A of a record that has
\* no B variant but has a component_key
C1_Witness ==
    \E h \in 1..Len(handlers) :
        /\ IsBatch(h)
        /\ handlers[h].msg.mode = "B"
        /\ handlers[h].msg.icons[1].vkA = KeyA
        /\ handlers[h].msg.icons[1].vkB = Undefined
        /\ handlers[h].msg.icons[1].component_key = KeyC
        /\ KeysOf(h) = <<KeyA>>
        /\ BatchCompleted(h)

(***************************************************************************)
(* C2 (as claimed): a batch whose import fails for one record goes on: it  *)
(* ends having imported every record that resolves and with one success    *)
(* notification.                                                           *)
(***************************************************************************)
C2_FailureIsPerRecord ==
    \A h \in 1..Len(handlers) :
        (IsBatch(h) /\ handlers[h].pc = "done") =>
            /\ Len(KeysOf(h)) =
                 Cardinality(ResolvableIndices(handlers[h].msg.icons, handlers[h].msg.mode))
            /\ Len(NotesOf(h)) = 1
            /\ NotesOf(h)[1].kind = "inserted-n"
            /\ ~NotesOf(h)[1].error

(***************************************************************************)
(* C3: when a batch ends with every import having succeeded, the imports   *)
(* it made, the objects on the page and the objects selected are each as   *)
(* many as its records that resolve; before that it never made more        *)
(* imports nor placed more objects than that.                              *)
(***************************************************************************)
C3_CountsEqualResolvable ==
    \A h \in 1..Len(handlers) :
        IsBatch(h) =>
            LET n == Cardinality(ResolvableIndices(handlers[h].msg.icons,
                                                   handlers[h].msg.mode))
            IN  /\ Len(KeysOf(h)) <= n
                /\ Len(canvas) <= n
                /\ BatchCompleted(h) =>
                     /\ Len(KeysOf(h)) = n
                     /\ Len(canvas) = n
                     /\ Len(selection) = n
                     /\ {selection[k] : k \in 1..n} = 1..n

\* a batch of five records, two of them unresolvable, has ended with three objects
C3_Witness ==
    \E h \in 1..Len(handlers) :
        /\ BatchCompleted(h)
        /\ Len(handlers[h].msg.icons) = 5
        /\ Cardinality(ResolvableIndices(handlers[h].msg.icons, handlers[h].msg.mode)) = 3
        /\ Len(canvas) = 3
        /\ Len(selection) = 3

(***************************************************************************)
(* C4 (as claimed): the count in a batch's closing notification is the     *)
(* number of objects the batch placed.                                     *)
(***************************************************************************)
C4_CountIsPlaced ==
    \A k \in 1..Len(notifications) :
        notifications[k].kind = "inserted-n" =>
            notifications[k].count = Len(handlers[notifications[k].h].instances)

(***************************************************************************)
(* C5: the step that handles an insert-icon whose record resolves to no    *)
(* identifier makes no import call, leaves page, selection and viewport as *)
(* they were and raises exactly one notification, flagged as an error.     *)
(***************************************************************************)
C5_UnresolvedSingleStep ==
    (/\ Len(handlers') = Len(handlers) + 1
     /\ handlers'[Len(handlers')].msg.type = "insert-icon"
     /\ handlers'[Len(handlers')].msg.iconData.present
     /\ Precedence(handlers'[Len(handlers')].msg.iconData,
                   handlers'[Len(handlers')].msg.mode) = Unresolved)
    => /\ imports' = imports
       /\ canvas' = canvas
       /\ selection' = selection
       /\ viewport' = viewport
       /\ handlers'[Len(handlers')].pc = "done"
       /\ Len(notifications') = Len(notifications) + 1
       /\ notifications'[Len(notifications')].h = Len(handlers')
       /\ notifications'[Len(notifications')].error

C5_UnresolvedSingle == [][C5_UnresolvedSingleStep]_vars

\* an insert-icon of an unresolvable record has been handled while another
\* handler is suspended
C5_Witness ==
    \E h \in 1..Len(handlers), g \in 1..Len(handlers) :
        /\ IsSingle(h)
        /\ Precedence(handlers[h].msg.iconData, handlers[h].msg.mode) = Unresolved
        /\ handlers[h].pc = "done"
        /\ g < h
        /\ handlers[g].pc = "await-import"

(***************************************************************************)
(* C6 (as claimed): messages are handled one at a time, to completion: a   *)
(* handler suspended on an import is the last one that was started, so no  *)
(* later message has begun to be handled before it finished.               *)
(***************************************************************************)
C6_OneHandlerAtATime ==
    \A h \in 1..Len(handlers) :
        handlers[h].pc = "await-import" => h = Len(handlers)

(***************************************************************************)
(* C7 (as claimed): a cached-data reply carries exactly the payload of the *)
(* last cache-data message handled before the get-cached-data it answers.  *)
(***************************************************************************)
\* the cache-data messages handled before handler h
WritesBefore(h) == {g \in 1..(h - 1) : handlers[g].msg.type = "cache-data"}
LastWriteBefore(h) == CHOOSE g \in WritesBefore(h) : \A f \in WritesBefore(h) : f <= g

C7_CacheRoundTrip ==
    \A k \in 1..Len(outbox) :
        WritesBefore(outbox[k].h) # {} =>
            outbox[k].payload = handlers[LastWriteBefore(outbox[k].h)].msg.payload

(***************************************************************************)
(* C8: "none" and a written catalog can be told apart.  A reply to a       *)
(* get-cached-data before which nothing was written carries null; a reply  *)
(* after a catalog was last written, an empty one included, carries that   *)
(* catalog and not null; so when only catalogs were ever written, the      *)
(* reply is null exactly when nothing was written.                         *)
(***************************************************************************)
IsCatalog(v) == v.type = "array"

Disjoint(a, b) ==
    \/ a.x + a.width <= b.x
    \/ b.x + b.width <= a.x
    \/ a.y + a.height <= b.y
    \/ b.y + b.height <= a.y

C9_NoOverlap ==
    \A h \in 1..Len(handlers) :
        IsBatch(h) =>
            \A i, j \in 1..Len(handlers[h].instances) :
                i < j =>
                    LET a == canvas[handlers[h].instances[i]]
                        b == canvas[handlers[h].instances[j]]
                    IN  /\ a.width > 0 /\ a.height > 0
                        /\ Disjoint(a, b)
                        /\ \/ a.y = b.y /\ b.x >= a.x + a.width + 20
                           \/ b.y >= a.y + a.height + 20

\* a batch has filled a row with two objects and wrapped into a second row
\* under a taller object
C9_Witness ==
    \E h \in 1..Len(handlers) :
        /\ BatchCompleted(h)
        /\ Len(handlers[h].instances) >= 4
        /\ LET n1 == canvas[handlers[h].instances[1]]
               n2 == canvas[handlers[h].instances[2]]
               n3 == canvas[handlers[h].instances[3]]
           IN  /\ n1.y = n2.y
               /\ n2.height > n1.height
               /\ n3.y > n2.y
               /\ n3.x = n1.x

(***************************************************************************)
(* Row-wrap placement against the algorithm of the specification.          *)
(***************************************************************************)
\* the algorithm as specified: inRow counts the objects of the current row
RECURSIVE RowWrap(_, _, _, _, _, _)
RowWrap(sizes, x, y, startX, maxH, inRow) ==
    IF sizes = <<>> THEN <<>>
    ELSE LET w == Head(sizes)[1]
             hgt == Head(sizes)[2]
             wrap == (x - startX + w) > 400 /\ inRow >= 1
             px == IF wrap THEN startX ELSE x
             py == IF wrap THEN y + maxH + 20 ELSE y
             mh == IF wrap THEN 0 ELSE maxH
         IN  <<<<px, py>>>> \o
             RowWrap(Tail(sizes), px + w + 20, py, startX, Max(mh, hgt),
                     (IF wrap THEN 0 ELSE inRow) + 1)

SizesOf(h) ==
    [k \in 1..Len(handlers[h].instances) |->
        <<canvas[handlers[h].instances[k]].width, canvas[handlers[h].instances[k]].height>>]
PositionsOf(h) ==
    [k \in 1..Len(handlers[h].instances) |->
        <<canvas[handlers[h].instances[k]].x, canvas[handlers[h].instances[k]].y>>]

\* the batch of the worked example: four objects of 150 x 50 at (1000,1000)
IsExample(h) ==
    /\ handlers[h].viewportCenter = <<1000, 1000>>
    /\ SizesOf(h) = [k \in 1..4 |-> <<150, 50>>]

(***************************************************************************)
(* C10 (as claimed): the coordinates of a batch are those of the specified *)
(* row-wrap algorithm with spacing 20 and row width 400, which wraps       *)
(* exactly when (x - rowStartX + width) > 400 and the current row holds an *)
(* object; and four objects of 150 x 50 at center (1000,1000) land at      *)
(* (1000,1000), (1170,1000), (1340,1000) and (1000,1070).                  *)
(***************************************************************************)
C10_AsClaimed ==
    \A h \in 1..Len(handlers) :
        IsBatch(h) =>
            LET c == handlers[h].viewportCenter
            IN  /\ PositionsOf(h) = RowWrap(SizesOf(h), c[1], c[2], c[1], 0, 0)
                /\ IsExample(h)
                     => PositionsOf(h) = << <<1000, 1000>>, <<1170, 1000>>,
                                            <<1340, 1000>>, <<1000, 1070>> >>

(***************************************************************************)
(* C10 (amended): the coordinates of a batch are those of the specified    *)
(* row-wrap algorithm with spacing 20 and row width 400; in the worked     *)
(* example the third object already wraps (1340 - 1000 + 150 = 490 > 400), *)
(* so the four objects land at (1000,1000), (1170,1000), (1000,1070) and   *)
(* (1170,1070).                                                            *)
(***************************************************************************)
C10_RowWrapCoordinates ==
    \A h \in 1..Len(handlers) :
        IsBatch(h) =>
            LET c == handlers[h].viewportCenter
            IN  /\ PositionsOf(h) = RowWrap(SizesOf(h), c[1], c[2], c[1], 0, 0)
                /\ IsExample(h)
                     => PositionsOf(h) = << <<1000, 1000>>, <<1170, 1000>>,
                                            <<1000, 1070>>, <<1170, 1070>> >>

\* the batch of the worked example has been placed, its third object wrapped
C10_Witness ==
    \E h \in 1..Len(handlers) :
        /\ BatchCompleted(h)
        /\ IsExample(h)
        /\ canvas[handlers[h].instances[3]].x = 1000
        /\ canvas[handlers[h].instances[3]].y = 1070

(***************************************************************************)
(* The settlements of the host.                                            *)
(***************************************************************************)
\* this step is the host settling an import of handler h, with success or not
SettlesFor(h, ok) ==
    /\ Len(settled') = Len(settled) + 1
    /\ settled'[Len(settled')].h = h
    /\ settled'[Len(settled')].ok = ok

\* the imports of handler h the host has settled, and those that failed
SettledOf(h) == SelectSeq(settled, LAMBDA e : e.h = h)
FailedOf(h) == SelectSeq(settled, LAMBDA e : e.h = h /\ ~e.ok)

(***************************************************************************)
(* C11 (as claimed): an empty request, an insert-multiple without icons or *)
(* with none and an insert-icon without iconData, is rejected at once: the *)
(* handler ends having raised one notification and made no import and no   *)
(* instance.                                                               *)
(***************************************************************************)
IsEmptyRequest(msg) ==
    \/ msg.type = "insert-multiple" /\ (~msg.has_icons \/ Len(msg.icons) = 0)
    \/ msg.type = "insert-icon" /\ ~msg.iconData.present

C11_EmptyRequestRejected ==
    \A h \in 1..Len(handlers) :
        IsEmptyRequest(handlers[h].msg) =>
            /\ handlers[h].pc = "done"
            /\ Len(NotesOf(h)) = 1
            /\ KeysOf(h) = <<>>
            /\ handlers[h].instances = <<>>

(***************************************************************************)
(* C12: the step in which the import of a single insert fails raises       *)
(* exactly one notification, flagged as an error and naming the icon, ends *)
(* the handler without an uncaught exception, and leaves the page, the     *)
(* selection and the viewport as they were.                                *)
(***************************************************************************)
C12_SingleImportFailureStep ==
    \A h \in 1..Len(handlers) :
        (IsSingle(h) /\ SettlesFor(h, FALSE)) =>
            /\ canvas' = canvas
            /\ selection' = selection
            /\ viewport' = viewport
            /\ rejections' = rejections
            /\ handlers'[h].pc = "done"
            /\ handlers'[h].instances = <<>>
            /\ Len(notifications') = Len(notifications) + 1
            /\ SubSeq(notifications', 1, Len(notifications)) = notifications
            /\ notifications'[Len(notifications')].h = h
            /\ notifications'[Len(notifications')].error
            /\ notifications'[Len(notifications')].icon_name
                 = handlers[h].msg.iconData.icon_name
            /\ handlers[h].msg.iconData.icon_name # Undefined

C12_SingleImportFailure == [][C12_SingleImportFailureStep]_vars

\* the import of a single insert has failed on a page that held a selected object
C12_Witness ==
    \E h \in 1..Len(handlers) :
        /\ IsSingle(h)
        /\ Len(FailedOf(h)) = 1
        /\ handlers[h].pc = "done"
        /\ canvas # <<>>
        /\ selection # <<>>

(***************************************************************************)
(* C13: the step in which the import of a single insert succeeds adds      *)
(* exactly one object, of the component's size, whose top-left corner is   *)
(* (center.x - width/2, center.y - height/2) for the viewport center of    *)
(* that moment, so that its centre is that center, and makes it the whole  *)
(* selection, wherever earlier objects lie.                                *)
(***************************************************************************)
C13_SingleInsertStep ==
    \A h \in 1..Len(handlers) :
        (IsSingle(h) /\ SettlesFor(h, TRUE)) =>
            /\ Len(canvas') = Len(canvas) + 1
            /\ SubSeq(canvas', 1, Len(canvas)) = canvas
            /\ LET n == canvas'[Len(canvas')]
               IN  /\ n.width = ComponentWidth(KeysOf(h)[1])
                   /\ n.height = ComponentHeight(KeysOf(h)[1])
                   /\ n.x = viewport[1] - n.width \div 2
                   /\ n.y = viewport[2] - n.height \div 2
                   /\ 2 * n.x + n.width = 2 * viewport[1]
                   /\ 2 * n.y + n.height = 2 * viewport[2]
            /\ selection' = <<Len(canvas')>>
            /\ handlers'[h].pc = "done"

C13_SingleInsertCentred == [][C13_SingleInsertStep]_vars

\* a single insert has put the second object of the page around the center
C13_Witness ==
    \E h \in 1..Len(handlers) :
        /\ IsSingle(h)
        /\ handlers[h].pc = "done"
        /\ handlers[h].instances = <<2>>
        /\ selection = <<2>>
        /\ 2 * canvas[2].x + canvas[2].width = 2 * handlers[h].viewportCenter[1]

(***************************************************************************)
(* C14 (as claimed): once a batch has finished, by success or by failure,  *)
(* every object it created and positioned is in the selection.             *)
(***************************************************************************)
C14_PlacedAreSelected ==
    \A h \in 1..Len(handlers) :
        (IsBatch(h) /\ handlers[h].pc = "done") =>
            \A k \in 1..Len(handlers[h].instances) :
                \E j \in 1..Len(selection) : selection[j] = handlers[h].instances[k]

(***************************************************************************)
(* C15: a batch issues its imports one after the other in request order.   *)
(* At most one of its imports is outstanding, and one is exactly while the *)
(* handler is suspended; an import is issued only when the objects of all  *)
(* earlier imports are placed; the keys imported are, in order, those of   *)
(* the records that resolve; and the k-th placed object is an instance of  *)
(* the k-th such record's component.                                       *)
(***************************************************************************)
C15_SequentialImports ==
    \A h \in 1..Len(handlers) :
        IsBatch(h) =>
            LET hr == handlers[h]
                expected == ExpectedKeys(hr.msg.icons, hr.msg.mode)
                issued == Len(KeysOf(h))
                answered == Len(SettledOf(h))
                placed == Len(hr.instances)
            IN  /\ issued - answered \in {0, 1}
                /\ (issued - answered = 1) <=> (hr.pc = "await-import")
                /\ issued <= placed + 1
                /\ placed + Len(FailedOf(h)) = answered
                /\ Len(FailedOf(h)) <= 1
                /\ IsPrefix(KeysOf(h), expected)
                /\ \A k \in 1..answered : SettledOf(h)[k].key = expected[k]
                /\ \A k \in 1..placed :
                      /\ canvas[hr.instances[k]].width = ComponentWidth(expected[k])
                      /\ canvas[hr.instances[k]].height = ComponentHeight(expected[k])
                /\ \A k \in 1..placed : \A j \in 1..placed :
                      k < j => hr.instances[k] < hr.instances[j]

\* a batch that skips its second record has placed three different components
C15_Witness ==
    \E h \in 1..Len(handlers) :
        /\ BatchCompleted(h)
        /\ Len(handlers[h].msg.icons) = 4
        /\ 2 \notin ResolvableIndices(handlers[h].msg.icons, handlers[h].msg.mode)
        /\ KeysOf(h) = <<KeyB, KeyA, KeyC>>
        /\ Len(handlers[h].instances) = 3
        /\ canvas[handlers[h].instances[1]].width = 230
        /\ canvas[handlers[h].instances[3]].width = 450

(***************************************************************************)
(* C16 (as claimed): no handler ends with an exception nothing catches and *)
(* no promise is rejected without a handler, whatever the message and      *)
(* whatever the host answers.                                              *)
(***************************************************************************)
C16_NothingUncaught ==
    /\ rejections = 0
    /\ \A h \in 1..Len(handlers) : handlers[h].pc # "threw"

(***************************************************************************)
(* C17: packing is deterministic.  Two batches that read the same viewport *)
(* center when they started and whose objects so far have the same sizes   *)
(* in the same order have given them the same coordinates, whatever other  *)
(* handlers and the user did to viewport and selection meanwhile; and the  *)
(* first object of a batch lies at the center the batch read.              *)
(***************************************************************************)
SameSizesUpTo(h, g, k) == \A j \in 1..k : SizesOf(h)[j] = SizesOf(g)[j]

C17_PackingDeterministic ==
    \A h \in 1..Len(handlers) :
        IsBatch(h) =>
            /\ Len(handlers[h].instances) > 0
                 => PositionsOf(h)[1] = handlers[h].viewportCenter
            /\ \A g \in 1..Len(handlers) :
                  (IsBatch(g) /\ handlers[g].viewportCenter = handlers[h].viewportCenter) =>
                      \A k \in 1..Len(handlers[h].instances) :
                          (k <= Len(handlers[g].instances) /\ SameSizesUpTo(h, g, k))
                              => PositionsOf(h)[k] = PositionsOf(g)[k]

\* two batches of the same request ran interleaved from the same center, and
\* the view had moved by the time the second one wrapped
C17_Witness ==
    \E h \in 1..Len(handlers) : \E g \in 1..Len(handlers) :
        /\ h < g
        /\ BatchCompleted(h) /\ BatchCompleted(g)
        /\ handlers[h].viewportCenter = handlers[g].viewportCenter
        /\ handlers[h].instances = <<1, 3>>
        /\ handlers[g].instances = <<2, 4>>
        /\ SizesOf(h) = SizesOf(g)
        /\ PositionsOf(g)[2][2] > PositionsOf(g)[1][2]
        /\ viewport # handlers[g].viewportCenter

(***************************************************************************)
(* C18: the guard of the code, a non-empty list of placed objects, is the  *)
(* guard of the specification, a non-empty current row.  Whenever a batch  *)
(* has placed an object, the last placed object lies in the current row    *)
(* and the cursor stands 20 right of it, so the row is not empty when the  *)
(* wrap test runs; when it has placed none, the row is empty.  The first   *)
(* placed object lies at the center, unwrapped, also after skipped         *)
(* records, and every row starts at rowStartX.                             *)
(***************************************************************************)
\* the placed objects of handler h that lie in the row of its cursor
InCurrentRow(h) ==
    {k \in 1..Len(handlers[h].instances) :
        canvas[handlers[h].instances[k]].y = handlers[h].currentY}

C18_GuardIsRowGuard ==
    \A h \in 1..Len(handlers) :
        IsBatch(h) =>
            LET hr == handlers[h]
                n == Len(hr.instances)
            IN  /\ (n > 0) <=> (InCurrentRow(h) # {})
                /\ n = 0 => /\ hr.currentX = hr.rowStartX
                            /\ hr.currentY = hr.viewportCenter[2]
                /\ n > 0 =>
                     /\ canvas[hr.instances[1]].x = hr.viewportCenter[1]
                     /\ canvas[hr.instances[1]].y = hr.viewportCenter[2]
                     /\ n \in InCurrentRow(h)
                     /\ hr.currentX = canvas[hr.instances[n]].x
                                        + canvas[hr.instances[n]].width + 20
                     /\ hr.currentX > hr.rowStartX
                /\ \A k \in 2..n :
                      canvas[hr.instances[k]].y # canvas[hr.instances[k - 1]].y
                          => /\ canvas[hr.instances[k]].x = hr.rowStartX
                             /\ canvas[hr.instances[k]].y > canvas[hr.instances[k - 1]].y

\* a batch whose first record was skipped has placed an oversized first object
\* and wrapped after it
C18_Witness ==
    \E h \in 1..Len(handlers) :
        /\ IsBatch(h)
        /\ 1 \notin ResolvableIndices(handlers[h].msg.icons, handlers[h].msg.mode)
        /\ Len(handlers[h].instances) >= 2
        /\ canvas[handlers[h].instances[1]].width > 400
        /\ canvas[handlers[h].instances[1]].y = handlers[h].viewportCenter[2]
        /\ canvas[handlers[h].instances[2]].y > handlers[h].viewportCenter[2]

(***************************************************************************)
(* C19: an object that is not the first of its row ends at most 400 right  *)
(* of rowStartX; so an object that ends further right is wider than 400,   *)
(* starts its row and is alone in it.                                      *)
(***************************************************************************)
C19_RowWidthBound ==
    \A h \in 1..Len(handlers) :
        IsBatch(h) =>
            LET hr == handlers[h]
                at(k) == canvas[hr.instances[k]]
            IN  \A k \in 1..Len(hr.instances) :
                    /\ (k > 1 /\ at(k - 1).y = at(k).y)
                         => at(k).x - hr.rowStartX + at(k).width <= 400
                    /\ at(k).x - hr.rowStartX + at(k).width > 400
                         => /\ at(k).width > 400
                            /\ at(k).x = hr.rowStartX
                            /\ \A j \in 1..Len(hr.instances) :
                                  j # k => at(j).y # at(k).y

\* a batch has filled one row to exactly 400 with two objects and given an
\* object wider than 400 a row of its own
C19_Witness ==
    \E h \in 1..Len(handlers) :
        /\ BatchCompleted(h)
        /\ Len(handlers[h].instances) = 3
        /\ LET n1 == canvas[handlers[h].instances[1]]
               n2 == canvas[handlers[h].instances[2]]
               n3 == canvas[handlers[h].instances[3]]
           IN  /\ n1.y = n2.y
               /\ n2.x + n2.width - handlers[h].rowStartX = 400
               /\ n3.width > 400
               /\ n3.y > n2.y

====
